---- MODULE Spec2Model ----
(***************************************************************************)
(* Rule evaluation and notification scheduling of dont-look-at-the-chart.  *)
(*                                                                         *)
(* The model follows src/src/lib/ruleEvaluator.ts (isQuietTime,            *)
(* evaluateRules), src/src/lib/notificationSender.ts (sendNotifications)   *)
(* and the cron handler src/src/app/api/cron/fetch-prices/route.ts that    *)
(* stores a batch of prices and then runs one evaluation pass.             *)
(*                                                                         *)
(* Instants are whole minutes counted from midnight UTC of day 0.  Prices  *)
(* and thresholds are integers; a percentage comparison x/h*100 >= v is    *)
(* computed exactly as x*100 >= v*h for h > 0, and the IEEE results of a   *)
(* division by zero (Infinity, NaN) are modelled explicitly.               *)
(***************************************************************************)
EXTENDS Integers, Sequences, FiniteSets, TLC

VARIABLES
    now,             \* the wall clock read by every "new Date()"
    users,           \* User rows: quiet time settings per user id
    rules,           \* NotificationRule rows per rule id
    priceHistory,    \* PriceHistory rows: set of [assetId, price, timestamp]
    triggeredAlerts, \* TriggeredAlert rows in insertion order
    pass,            \* per cron invocation: position and locals of evaluateRules
    api              \* rule management API: ids issued and the last response

vars == <<now, users, rules, priceHistory, triggeredAlerts, pass, api>>

-----------------------------------------------------------------------------
(* Bounds of the model.                                                    *)

MaxTime == 90
MaxSamples == 2
MaxLateTime == 30

TickSteps == {30}

(* Program constants.                                                      *)

RULE_COOLDOWN_MINUTES == 60
MinutesPerHour == 60
MinutesPerDay == 1440
PruneRetentionDays == 7

-----------------------------------------------------------------------------
(* Reference data: users, assets and the tracked-asset relation.           *)

UserIds == {"u1", "u2"}
AssetIds == {"a1", "a2"}
RuleIds == {"r1", "r2"}
PassIds == {1, 2}

TrackedAssets ==
    [ t1 |-> [userId |-> "u1", assetId |-> "a1"],
      t2 |-> [userId |-> "u1", assetId |-> "a2"],
      t3 |-> [userId |-> "u2", assetId |-> "a1"] ]

TrackedAssetIds == DOMAIN TrackedAssets

PRICE_TARGET_ABOVE == "PRICE_TARGET_ABOVE"
PRICE_TARGET_BELOW == "PRICE_TARGET_BELOW"
PERCENT_CHANGE_INCREASE == "PERCENT_CHANGE_INCREASE"
PERCENT_CHANGE_DECREASE == "PERCENT_CHANGE_DECREASE"

NotificationRuleType ==
    {PRICE_TARGET_ABOVE, PRICE_TARGET_BELOW,
     PERCENT_CHANGE_INCREASE, PERCENT_CHANGE_DECREASE}

(* Prices the price feed can report per asset; it has no price for a2. *)
PriceValues == [a1 |-> {0, 100, 110}, a2 |-> {}]

(* Rule definitions a user can have stored: type, value, window (0 = null). *)
RuleTemplates ==
    { [type |-> PRICE_TARGET_ABOVE, value |-> 100, timeWindowHours |-> 0],
      [type |-> PRICE_TARGET_BELOW, value |-> 100, timeWindowHours |-> 0],
      [type |-> PERCENT_CHANGE_INCREASE, value |-> 10, timeWindowHours |-> 1],
      [type |-> PERCENT_CHANGE_DECREASE, value |-> 10, timeWindowHours |-> 1],
      [type |-> PERCENT_CHANGE_DECREASE, value |-> -10, timeWindowHours |-> 1] }

(* Quiet time settings as stored on the User row.  quietTimeStart and      *)
(* quietTimeEnd are the parts of the "HH:MM" string around the colon as    *)
(* parseInt reads them (NaN for a part that is missing or not a number),   *)
(* quietTimeZone is the IANA zone name; an absent field is the empty       *)
(* sequence.                                                               *)
NaN == -1

(* The zones the runtime knows, with their UTC offset in minutes at the    *)
(* instants of the model.                                                  *)
ZoneOffsets == [z \in {"UTC", "America/New_York"} |->
                   IF z = "UTC" THEN 0 ELSE -300]

QuietDisabled ==
    [quietTimeEnabled |-> FALSE, quietTimeStart |-> <<>>,
     quietTimeEnd |-> <<>>, quietTimeZone |-> <<>>]

QuietConfigs ==
    { QuietDisabled,
      \* 00:30 to 01:30 UTC
      [quietTimeEnabled |-> TRUE, quietTimeStart |-> <<0, 30>>,
       quietTimeEnd |-> <<1, 30>>, quietTimeZone |-> <<"UTC">>],
      \* 20:00 to 19:30 New York time, i.e. 01:00 to 00:30 UTC
      [quietTimeEnabled |-> TRUE, quietTimeStart |-> <<20, 0>>,
       quietTimeEnd |-> <<19, 30>>, quietTimeZone |-> <<"America/New_York">>] }

(* Further settings: start equal to end, disabled or incomplete settings   *)
(* whose remaining fields would cover every instant, an unknown zone and   *)
(* times that do not parse ("ab:cd" and "1").                              *)
EdgeQuietConfigs ==
    { [quietTimeEnabled |-> TRUE, quietTimeStart |-> <<1, 0>>,
       quietTimeEnd |-> <<1, 0>>, quietTimeZone |-> <<"UTC">>],
      [quietTimeEnabled |-> FALSE, quietTimeStart |-> <<0, 0>>,
       quietTimeEnd |-> <<23, 59>>, quietTimeZone |-> <<"UTC">>],
      [quietTimeEnabled |-> TRUE, quietTimeStart |-> <<>>,
       quietTimeEnd |-> <<23, 59>>, quietTimeZone |-> <<"UTC">>],
      [quietTimeEnabled |-> TRUE, quietTimeStart |-> <<0, 0>>,
       quietTimeEnd |-> <<>>, quietTimeZone |-> <<"UTC">>],
      [quietTimeEnabled |-> TRUE, quietTimeStart |-> <<0, 0>>,
       quietTimeEnd |-> <<23, 59>>, quietTimeZone |-> <<>>],
      [quietTimeEnabled |-> TRUE, quietTimeStart |-> <<0, 0>>,
       quietTimeEnd |-> <<23, 59>>, quietTimeZone |-> <<"Invalid/Timezone">>],
      [quietTimeEnabled |-> TRUE, quietTimeStart |-> <<NaN, NaN>>,
       quietTimeEnd |-> <<23, 59>>, quietTimeZone |-> <<"UTC">>],
      [quietTimeEnabled |-> TRUE, quietTimeStart |-> <<0, 0>>,
       quietTimeEnd |-> <<1>>, quietTimeZone |-> <<"UTC">>] }

-----------------------------------------------------------------------------
(* isQuietTime                                                             *)

(* The local time of day of an instant at a UTC offset. *)
LocalMinutes(instant, offset) ==
    (instant + offset + MinutesPerDay) % MinutesPerDay

(* toZonedTime followed by reading the local hours and minutes: an         *)
(* Invalid Date (NaN) for a zone the runtime does not know.                *)
toZonedTime(instant, timeZone) ==
    IF timeZone \in DOMAIN ZoneOffsets
    THEN LocalMinutes(instant, ZoneOffsets[timeZone])
    ELSE NaN

(* new Date(nowZoned) followed by setHours(hour, minute, 0, 0) with the    *)
(* two parsed parts of "HH:MM": the time of day in minutes, or an Invalid  *)
(* Date when the date or one of the parts is NaN.                          *)
setHours(nowZoned, parts) ==
    IF nowZoned = NaN \/ Len(parts) < 2 THEN NaN
    ELSE IF parts[1] = NaN \/ parts[2] = NaN THEN NaN
    ELSE parts[1] * MinutesPerHour + parts[2]

(* date-fns isWithinInterval: both ends inclusive. *)
isWithinInterval(t, start, end) == start <= t /\ t <= end

(* Variant: the overnight branch includes the end time. *)
isQuietTime_OvernightEndIncluded(user, instant) ==
    IF \/ ~user.quietTimeEnabled
       \/ user.quietTimeStart = <<>>
       \/ user.quietTimeEnd = <<>>
       \/ user.quietTimeZone = <<>>
    THEN FALSE
    ELSE LET nowZoned == toZonedTime(instant, user.quietTimeZone[1])
             startTime == setHours(nowZoned, user.quietTimeStart)
             endTime == setHours(nowZoned, user.quietTimeEnd)
         IN  IF nowZoned = NaN \/ startTime = NaN \/ endTime = NaN
             THEN FALSE
             ELSE IF startTime > endTime
             THEN nowZoned >= startTime \/ nowZoned <= endTime
             ELSE isWithinInterval(nowZoned, startTime, endTime)

(* Variant: the quietTimeEnabled flag is not looked at. *)
isQuietTime_IgnoresEnabled(user, instant) ==
    IF \/ user.quietTimeStart = <<>>
       \/ user.quietTimeEnd = <<>>
       \/ user.quietTimeZone = <<>>
    THEN FALSE
    ELSE LET nowZoned == toZonedTime(instant, user.quietTimeZone[1])
             startTime == setHours(nowZoned, user.quietTimeStart)
             endTime == setHours(nowZoned, user.quietTimeEnd)
         IN  IF nowZoned = NaN \/ startTime = NaN \/ endTime = NaN
             THEN FALSE
             ELSE IF startTime > endTime
             THEN nowZoned >= startTime \/ nowZoned < endTime
             ELSE isWithinInterval(nowZoned, startTime, endTime)

(* Variant: the catch block answers true. *)
isQuietTime_FailsClosed(user, instant) ==
    IF \/ ~user.quietTimeEnabled
       \/ user.quietTimeStart = <<>>
       \/ user.quietTimeEnd = <<>>
       \/ user.quietTimeZone = <<>>
    THEN FALSE
    ELSE LET nowZoned == toZonedTime(instant, user.quietTimeZone[1])
             startTime == setHours(nowZoned, user.quietTimeStart)
             endTime == setHours(nowZoned, user.quietTimeEnd)
         IN  IF nowZoned = NaN \/ startTime = NaN \/ endTime = NaN
             THEN TRUE
             ELSE IF startTime > endTime
             THEN nowZoned >= startTime \/ nowZoned < endTime
             ELSE isWithinInterval(nowZoned, startTime, endTime)

(* With an Invalid Date every comparison is false and isWithinInterval     *)
(* either throws a RangeError, which the catch turns into false, or        *)
(* returns false.                                                          *)
isQuietTime(user, instant) ==
    IF \/ ~user.quietTimeEnabled
       \/ user.quietTimeStart = <<>>
       \/ user.quietTimeEnd = <<>>
       \/ user.quietTimeZone = <<>>
    THEN FALSE
    ELSE LET nowZoned == toZonedTime(instant, user.quietTimeZone[1])
             startTime == setHours(nowZoned, user.quietTimeStart)
             endTime == setHours(nowZoned, user.quietTimeEnd)
         IN  IF nowZoned = NaN \/ startTime = NaN \/ endTime = NaN
             THEN FALSE
             ELSE IF startTime > endTime
             THEN nowZoned >= startTime \/ nowZoned < endTime
             ELSE isWithinInterval(nowZoned, startTime, endTime)

-----------------------------------------------------------------------------
(* Price queries                                                           *)

SamplesOf(history, assetId) == {s \in history : s.assetId = assetId}

(* findMany orderBy timestamp desc, distinct assetId: the candidates for   *)
(* the row kept for an asset are its rows with the greatest timestamp.     *)
LatestCandidates(history, assetId) ==
    {s \in SamplesOf(history, assetId) :
        \A o \in SamplesOf(history, assetId) : o.timestamp <= s.timestamp}

(* findFirst where timestamp >= startTime orderBy timestamp asc. *)
FindFirstCandidates(history, assetId, startTime) ==
    LET inWindow == {s \in SamplesOf(history, assetId) : s.timestamp >= startTime}
    IN  {s \in inWindow : \A o \in inWindow : s.timestamp <= o.timestamp}

-----------------------------------------------------------------------------
(* Condition evaluation                                                    *)

(* (latest - start) / start * 100 in IEEE arithmetic: a finite quotient    *)
(* kept as numerator and positive denominator, or +Infinity / NaN when the *)
(* start price is zero (prices are never negative).                        *)
PercentChange(latestPrice, startPrice) ==
    IF startPrice # 0
    THEN [kind |-> "finite", num |-> (latestPrice - startPrice) * 100, den |-> startPrice]
    ELSE IF latestPrice - startPrice > 0
         THEN [kind |-> "Infinity", num |-> 0, den |-> 1]
         ELSE [kind |-> "NaN", num |-> 0, den |-> 1]

(* Variant: percentChange > value *)
PercentGeq_Strict(pc, value) ==
    CASE pc.kind = "finite" -> pc.num > value * pc.den
      [] pc.kind = "Infinity" -> TRUE
      [] OTHER -> FALSE

(* percentChange >= value *)
PercentGeq(pc, value) ==
    CASE pc.kind = "finite" -> pc.num >= value * pc.den
      [] pc.kind = "Infinity" -> TRUE
      [] OTHER -> FALSE

(* percentChange <= value *)
PercentLeq(pc, value) ==
    CASE pc.kind = "finite" -> pc.num <= value * pc.den
      [] pc.kind = "Infinity" -> FALSE
      [] OTHER -> FALSE

IsPercentType(type) ==
    type \in {PERCENT_CHANGE_INCREASE, PERCENT_CHANGE_DECREASE}

(* Variant: the price target comparisons include equality. *)
ConditionMet_Inclusive(rule, latestPrice, startPriceRecord) ==
    CASE rule.type = PRICE_TARGET_ABOVE -> latestPrice.price >= rule.value
      [] rule.type = PRICE_TARGET_BELOW -> latestPrice.price <= rule.value
      [] rule.type = PERCENT_CHANGE_INCREASE ->
            /\ rule.timeWindowHours # 0
            /\ startPriceRecord # <<>>
            /\ PercentGeq(PercentChange(latestPrice.price, startPriceRecord[1].price),
                          rule.value)
      [] rule.type = PERCENT_CHANGE_DECREASE ->
            /\ rule.timeWindowHours # 0
            /\ startPriceRecord # <<>>
            /\ PercentLeq(PercentChange(latestPrice.price, startPriceRecord[1].price),
                          rule.value)

(* Variant: a percentage rule without a start price counts as met. *)
ConditionMet_MissingStartMet(rule, latestPrice, startPriceRecord) ==
    CASE rule.type = PRICE_TARGET_ABOVE -> latestPrice.price > rule.value
      [] rule.type = PRICE_TARGET_BELOW -> latestPrice.price < rule.value
      [] rule.type = PERCENT_CHANGE_INCREASE ->
            \/ rule.timeWindowHours = 0
            \/ startPriceRecord = <<>>
            \/ PercentGeq(PercentChange(latestPrice.price, startPriceRecord[1].price),
                          rule.value)
      [] rule.type = PERCENT_CHANGE_DECREASE ->
            \/ rule.timeWindowHours = 0
            \/ startPriceRecord = <<>>
            \/ PercentLeq(PercentChange(latestPrice.price, startPriceRecord[1].price),
                          rule.value)

(* The switch over rule.type; startPriceRecord is <<>> or <<row>>. *)
ConditionMet(rule, latestPrice, startPriceRecord) ==
    CASE rule.type = PRICE_TARGET_ABOVE -> latestPrice.price > rule.value
      [] rule.type = PRICE_TARGET_BELOW -> latestPrice.price < rule.value
      [] rule.type = PERCENT_CHANGE_INCREASE ->
            /\ rule.timeWindowHours # 0
            /\ startPriceRecord # <<>>
            /\ PercentGeq(PercentChange(latestPrice.price, startPriceRecord[1].price),
                          rule.value)
      [] rule.type = PERCENT_CHANGE_DECREASE ->
            /\ rule.timeWindowHours # 0
            /\ startPriceRecord # <<>>
            /\ PercentLeq(PercentChange(latestPrice.price, startPriceRecord[1].price),
                          rule.value)

(* Variant: the comparison with the threshold is not strict. *)
InCooldown_Inclusive(lastTriggeredAlerts, instant) ==
    /\ lastTriggeredAlerts # <<>>
    /\ lastTriggeredAlerts[1].triggeredAt >= instant - RULE_COOLDOWN_MINUTES

(* Variant: the cooldown check is placed after the evaluation, where it   *)
(* no longer skips anything.                                               *)
InCooldown_Never(lastTriggeredAlerts, instant) == FALSE

(* Variant: the threshold is computed from half the cooldown period. *)
InCooldown_HalfPeriod(lastTriggeredAlerts, instant) ==
    /\ lastTriggeredAlerts # <<>>
    /\ 2 * (lastTriggeredAlerts[1].triggeredAt - instant) > - RULE_COOLDOWN_MINUTES

(* Variant: the comparison with the threshold is turned around. *)
InCooldown_Reversed(lastTriggeredAlerts, instant) ==
    /\ lastTriggeredAlerts # <<>>
    /\ lastTriggeredAlerts[1].triggeredAt < instant - RULE_COOLDOWN_MINUTES

(* The cooldown check on the rule's most recent alert (take 1). *)
InCooldown(lastTriggeredAlerts, instant) ==
    /\ lastTriggeredAlerts # <<>>
    /\ lastTriggeredAlerts[1].triggeredAt > instant - RULE_COOLDOWN_MINUTES

-----------------------------------------------------------------------------
(* Database helpers                                                        *)

Max(S) == CHOOSE x \in S : \A y \in S : y <= x

AlertsOf(alerts, ruleId) ==
    {alerts[i].triggeredAt : i \in {j \in DOMAIN alerts : alerts[j].ruleId = ruleId}}

(* include triggeredAlerts orderBy triggeredAt desc, take 1.  Only the     *)
(* triggeredAt of the row is ever read by the evaluator.                   *)
MostRecentAlert(alerts, ruleId) ==
    IF AlertsOf(alerts, ruleId) = {}
    THEN <<>>
    ELSE <<[triggeredAt |-> Max(AlertsOf(alerts, ruleId))]>>

(* Variant: findMany without its where clause. *)
FindActiveRules_All(ruleRows, userRows, alerts) ==
    [r \in DOMAIN ruleRows |->
        [type |-> ruleRows[r].type,
         value |-> ruleRows[r].value,
         timeWindowHours |-> ruleRows[r].timeWindowHours,
         isEnabled |-> ruleRows[r].isEnabled,
         trackedAssetId |-> ruleRows[r].trackedAssetId,
         assetId |-> TrackedAssets[ruleRows[r].trackedAssetId].assetId,
         userId |-> TrackedAssets[ruleRows[r].trackedAssetId].userId,
         user |-> userRows[TrackedAssets[ruleRows[r].trackedAssetId].userId],
         triggeredAlerts |-> MostRecentAlert(alerts, r)]]

(* notificationRule.findMany where isEnabled, with trackedAsset.user and   *)
(* the most recent alert included.                                         *)
FindActiveRules(ruleRows, userRows, alerts) ==
    [r \in {x \in DOMAIN ruleRows : ruleRows[x].isEnabled} |->
        [type |-> ruleRows[r].type,
         value |-> ruleRows[r].value,
         timeWindowHours |-> ruleRows[r].timeWindowHours,
         isEnabled |-> ruleRows[r].isEnabled,
         trackedAssetId |-> ruleRows[r].trackedAssetId,
         assetId |-> TrackedAssets[ruleRows[r].trackedAssetId].assetId,
         userId |-> TrackedAssets[ruleRows[r].trackedAssetId].userId,
         user |-> userRows[TrackedAssets[ruleRows[r].trackedAssetId].userId],
         triggeredAlerts |-> MostRecentAlert(alerts, r)]]

(* Assets with at least one TrackedAsset row. *)
AssetsTracked == {TrackedAssets[t].assetId : t \in TrackedAssetIds}

-----------------------------------------------------------------------------
(* Locals of one cron invocation.  The fields after triggeredRules record  *)
(* what the invocation did: the calls it made, the rows it inserted and    *)
(* whether one of its two bulk loads was rejected.  rejected holds the     *)
(* rules whose row was part of a rejected write, blamed the rules whose    *)
(* own row the database could not take, emails the calls of                *)
(* sendEmailNotification with their result.                               *)

IdlePass ==
    [pc |-> "idle",
     activeRules |-> <<>>,
     latestPricesMap |-> <<>>,
     pending |-> {},
     triggeredRules |-> <<>>,
     log |-> <<>>,
     createCalls |-> <<>>,
     createManyCalls |-> <<>>,
     sendNotificationsCalls |-> <<>>,
     inserted |-> <<>>,
     rejected |-> {},
     blamed |-> {},
     emails |-> <<>>,
     successCount |-> 0,
     failureCount |-> 0,
     loadError |-> FALSE]

InitWith(configs, templates) ==
    /\ now = 0
    /\ \E q \in configs :
          users = [u \in UserIds |-> IF u = "u1" THEN q ELSE QuietDisabled]
    /\ \E tpl \in templates, t \in TrackedAssetIds, e \in BOOLEAN :
          /\ (~e => t = "t3")
          /\ rules = [r \in RuleIds |->
                      IF r = "r1"
                      THEN [type |-> tpl.type, value |-> tpl.value,
                            timeWindowHours |-> tpl.timeWindowHours,
                            trackedAssetId |-> "t1", isEnabled |-> TRUE]
                      ELSE [type |-> PRICE_TARGET_ABOVE, value |-> 100,
                            timeWindowHours |-> 0,
                            trackedAssetId |-> t, isEnabled |-> e]]
    /\ priceHistory = {}
    /\ triggeredAlerts = <<>>
    /\ pass = [p \in PassIds |-> IdlePass]
    /\ api = [issued |-> Cardinality(RuleIds), status |-> 0]

Init == InitWith(QuietConfigs, RuleTemplates)

-----------------------------------------------------------------------------
(* The clock.                                                              *)

Tick ==
    /\ \E d \in TickSteps :
          /\ now + d <= MaxTime
          /\ now' = now + d
    /\ UNCHANGED <<users, rules, priceHistory, triggeredAlerts, pass, api>>

-----------------------------------------------------------------------------
(* GET /api/cron/fetch-prices, first step: fetchAndStorePrices.  priceData *)
(* holds the assets the feed returned a price for.  When rows were stored  *)
(* the handler goes on to evaluateRules, otherwise straight to pruning.    *)

PriceDataChoicesOf(values) ==
    UNION { {pd \in [S -> UNION {values[a] : a \in AssetIds}] :
                \A a \in S : pd[a] \in values[a]} : S \in SUBSET AssetsTracked }

PriceDataChoices == PriceDataChoicesOf(PriceValues)

fetchAndStorePrices(p, priceData) ==
    LET priceHistoryEntries ==
            {[assetId |-> a, price |-> priceData[a], timestamp |-> now] :
                a \in DOMAIN priceData}
        count == Cardinality(priceHistoryEntries)
    IN  /\ priceHistory' = priceHistory \cup priceHistoryEntries
        /\ pass' = [pass EXCEPT ![p] =
                       [IdlePass EXCEPT !.pc = IF count > 0 THEN "loadRules" ELSE "prune"]]

CronFetchFrom(p, choices) ==
    /\ pass[p].pc \in {"idle", "failed"}
    /\ \E priceData \in choices :
          /\ \A a \in DOMAIN priceData :
                /\ Cardinality(SamplesOf(priceHistory, a)) < MaxSamples
                /\ \A s \in SamplesOf(priceHistory, a) : s.timestamp < now
          /\ fetchAndStorePrices(p, priceData)
    /\ UNCHANGED <<now, users, rules, triggeredAlerts, api>>

CronFetch(p) == CronFetchFrom(p, PriceDataChoices)

-----------------------------------------------------------------------------
(* evaluateRules                                                           *)

Put(f, k, v) == [x \in DOMAIN f \cup {k} |-> IF x = k THEN v ELSE f[x]]

(* 1. Fetch all enabled rules; return at once when there are none. *)
LoadRules(p) ==
    /\ pass[p].pc = "loadRules"
    /\ LET activeRules == FindActiveRules(rules, users, triggeredAlerts)
       IN  pass' = [pass EXCEPT ![p] =
                       [@ EXCEPT !.activeRules = activeRules,
                                 !.pc = IF DOMAIN activeRules = {}
                                        THEN "prune" ELSE "loadPrices"]]
    /\ UNCHANGED <<now, users, rules, priceHistory, triggeredAlerts, api>>

(* 2./3. Latest price row of every asset the active rules refer to. *)
LoadPrices(p) ==
    /\ pass[p].pc = "loadPrices"
    /\ LET assetIds == {pass[p].activeRules[r].assetId : r \in DOMAIN pass[p].activeRules}
           priced == {a \in assetIds : SamplesOf(priceHistory, a) # {}}
       IN  \E latestPricesMap \in [priced -> priceHistory] :
              /\ \A a \in priced : latestPricesMap[a] \in LatestCandidates(priceHistory, a)
              /\ pass' = [pass EXCEPT ![p] =
                             [@ EXCEPT !.latestPricesMap = latestPricesMap,
                                       !.pending = DOMAIN pass[p].activeRules,
                                       !.pc = "eval"]]
    /\ UNCHANGED <<now, users, rules, priceHistory, triggeredAlerts, api>>

(* Variant: a rejected bulk load is taken for an empty result and the     *)
(* pass carries on.                                                        *)
AfterLoadError_Swallowed(ps) ==
    [ps EXCEPT !.loadError = TRUE, !.pending = DOMAIN ps.activeRules, !.pc = "eval"]

(* A rejected query of either bulk load is not caught in evaluateRules: it *)
(* propagates into the handler's catch and the invocation ends with        *)
(* status 500.                                                             *)
AfterLoadError(ps) == [ps EXCEPT !.loadError = TRUE, !.pc = "failed"]

LoadFail(p) ==
    /\ pass[p].pc \in {"loadRules", "loadPrices"}
    /\ pass' = [pass EXCEPT ![p] = AfterLoadError(@)]
    /\ UNCHANGED <<now, users, rules, priceHistory, triggeredAlerts, api>>

(* The historical lookup of a percentage rule: which rows findFirst may    *)
(* return for the window that ends at the latest price.                    *)
NeedsLookup(rule) == IsPercentType(rule.type) /\ rule.timeWindowHours # 0

WindowStart(rule, latestPrice) ==
    latestPrice.timestamp - rule.timeWindowHours * MinutesPerHour

StartPriceChoices(rule, latestPrice) ==
    LET found == FindFirstCandidates(priceHistory, rule.assetId,
                                     WindowStart(rule, latestPrice))
    IN  IF found = {} THEN {<<>>} ELSE {<<s>> : s \in found}

LogEntry(outcome, lookedUp, start, quiet) ==
    [evalAt |-> now, outcome |-> outcome, lookedUp |-> lookedUp,
     startPriceRecord |-> start, quiet |-> quiet]

(* Variant: the quiet time branch continues without recording the alert. *)
SuppressedAlertData_NotRecorded(r, latestPrice, quiet, instant) == <<>>

(* Variant: the create is issued for every met rule, ahead of the quiet   *)
(* time check.                                                             *)
SuppressedAlertData_BeforeQuietCheck(r, latestPrice, quiet, instant) ==
    << [ruleId |-> r, triggeringPrice |-> latestPrice.price,
        triggeredAt |-> instant] >>

(* The rows requested with triggeredAlert.create inside the quiet time     *)
(* branch of a rule whose condition is met.                                *)
SuppressedAlertData(r, latestPrice, quiet, instant) ==
    IF quiet
    THEN << [ruleId |-> r, triggeringPrice |-> latestPrice.price,
             triggeredAt |-> instant] >>
    ELSE <<>>

(* Variant: the quiet time branch does not "continue" and falls through   *)
(* to the push.                                                            *)
TriggeredRuleInfo_FallThrough(r, rule, latestPrice, quiet) ==
    << [ruleId |-> r,
        trackedAssetId |-> rule.trackedAssetId,
        userId |-> rule.userId,
        ruleType |-> rule.type,
        ruleValue |-> rule.value,
        triggeringPrice |-> latestPrice.price] >>

(* The entries pushed on triggeredRules for a rule whose condition is met: *)
(* none after the "continue" of the quiet time branch.                     *)
TriggeredRuleInfo(r, rule, latestPrice, quiet) ==
    IF quiet
    THEN <<>>
    ELSE << [ruleId |-> r,
             trackedAssetId |-> rule.trackedAssetId,
             userId |-> rule.userId,
             ruleType |-> rule.type,
             ruleValue |-> rule.value,
             triggeringPrice |-> latestPrice.price] >>

(* Variant: the rule loop has no check for a missing latest price. *)
MissingLatestPrice_Unchecked(latestPricesMap, assetId) == FALSE

(* if (!latestPrice) on the result of latestPricesMap.get(assetId). *)
MissingLatestPrice(latestPricesMap, assetId) ==
    assetId \notin DOMAIN latestPricesMap

(* Variant: the error of one rule is not caught inside the loop and ends  *)
(* evaluateRules.                                                          *)
AfterEvalError_Rethrown(ps) == [ps EXCEPT !.pending = {}, !.pc = "failed"]

(* catch (evalError) inside the loop: the error is logged and the loop     *)
(* goes on with the next rule.                                             *)
AfterEvalError(ps) == ps

(* TriggeredAlert.ruleId references NotificationRule.id: the rules of the *)
(* given rows that no longer exist.  An insert with such a row is          *)
(* rejected as a whole.                                                    *)
ForeignKeyViolations(rows, ruleRows) ==
    {rows[i].ruleId : i \in {j \in DOMAIN rows : rows[j].ruleId \notin DOMAIN ruleRows}}

(* 4. One iteration of the loop over activeRules, for rule r.  The         *)
(*    findFirst query may reject (caught by the per-rule catch) and the    *)
(*    create of a suppressed alert may reject (caught and logged).         *)
EvalRule(p) ==
    /\ pass[p].pc = "eval"
    /\ \E r \in pass[p].pending :
        LET ps == pass[p]
            rule == ps.activeRules[r]
            rest == [ps EXCEPT !.pending = @ \ {r}]
        IN
        IF MissingLatestPrice(ps.latestPricesMap, rule.assetId)
        THEN /\ pass' = [pass EXCEPT ![p] =
                    [rest EXCEPT !.log = Put(@, r, LogEntry("NO_PRICE", FALSE, <<>>, <<>>))]]
             /\ UNCHANGED triggeredAlerts
        ELSE IF InCooldown(rule.triggeredAlerts, now)
        THEN /\ pass' = [pass EXCEPT ![p] =
                    [rest EXCEPT !.log = Put(@, r, LogEntry("SKIPPED_COOLDOWN", FALSE, <<>>, <<>>))]]
             /\ UNCHANGED triggeredAlerts
        ELSE IF rule.assetId \notin DOMAIN ps.latestPricesMap
        THEN \* latestPrice.price of an undefined latestPrice throws inside the try
             /\ pass' = [pass EXCEPT ![p] =
                    AfterEvalError(
                        [rest EXCEPT !.log = Put(@, r, LogEntry("ERROR", FALSE, <<>>, <<>>))])]
             /\ UNCHANGED triggeredAlerts
        ELSE
        LET latestPrice == ps.latestPricesMap[rule.assetId] IN
        \/ /\ NeedsLookup(rule)
           /\ pass' = [pass EXCEPT ![p] =
                    AfterEvalError(
                        [rest EXCEPT !.log = Put(@, r, LogEntry("ERROR", TRUE, <<>>, <<>>))])]
           /\ UNCHANGED triggeredAlerts
        \/ \E start \in (IF NeedsLookup(rule)
                         THEN StartPriceChoices(rule, latestPrice) ELSE {<<>>}) :
            IF ~ConditionMet(rule, latestPrice, start)
            THEN /\ pass' = [pass EXCEPT ![p] =
                        [rest EXCEPT !.log =
                            Put(@, r, LogEntry("NOT_MET", NeedsLookup(rule), start, <<>>))]]
                 /\ UNCHANGED triggeredAlerts
            ELSE
            LET quiet == isQuietTime(rule.user, now)
                creates == SuppressedAlertData(r, latestPrice, quiet, now)
            IN  \E dbOk \in BOOLEAN :
                  /\ (creates = <<>> => dbOk)
                  /\ (ForeignKeyViolations(creates, rules) # {} => ~dbOk)
                  /\ pass' = [pass EXCEPT ![p] =
                        [rest EXCEPT
                           !.log = Put(@, r,
                                       LogEntry(IF quiet THEN "MET_SUPPRESSED"
                                                ELSE "MET_NOTIFIED",
                                                NeedsLookup(rule), start, <<quiet>>)),
                           !.createCalls = @ \o creates,
                           !.triggeredRules =
                               @ \o TriggeredRuleInfo(r, rule, latestPrice, quiet),
                           !.inserted = IF dbOk THEN @ \o creates ELSE @,
                           !.rejected = IF dbOk THEN @ ELSE @ \cup {r},
                           !.blamed = IF dbOk THEN @ ELSE @ \cup {r}]]
                  /\ triggeredAlerts' = IF dbOk THEN triggeredAlerts \o creates
                                        ELSE triggeredAlerts
    /\ UNCHANGED <<now, users, rules, priceHistory, api>>

(* 5. After the loop: createMany for the rules that will be notified.    *)
CreateManyData(triggeredRules, instant) ==
    [i \in DOMAIN triggeredRules |->
        [ruleId |-> triggeredRules[i].ruleId,
         triggeringPrice |-> triggeredRules[i].triggeringPrice,
         triggeredAt |-> instant]]

RecordAlerts(p) ==
    /\ pass[p].pc = "eval"
    /\ pass[p].pending = {}
    /\ LET triggeredRules == pass[p].triggeredRules
           triggeredAlertData == CreateManyData(triggeredRules, now)
       IN  IF Len(triggeredRules) > 0
           THEN \E dbOk \in BOOLEAN :
                   /\ (ForeignKeyViolations(triggeredAlertData, rules) # {} => ~dbOk)
                   /\ pass' = [pass EXCEPT ![p] =
                          [@ EXCEPT !.createManyCalls = Append(@, triggeredAlertData),
                                    !.inserted = IF dbOk THEN @ \o triggeredAlertData ELSE @,
                                    !.rejected =
                                        IF dbOk THEN @
                                        ELSE @ \cup {triggeredRules[i].ruleId :
                                                        i \in DOMAIN triggeredRules},
                                    !.blamed =
                                        IF dbOk THEN @
                                        ELSE IF ForeignKeyViolations(triggeredAlertData, rules) # {}
                                        THEN @ \cup ForeignKeyViolations(triggeredAlertData, rules)
                                        ELSE @ \cup {triggeredRules[i].ruleId :
                                                        i \in DOMAIN triggeredRules},
                                    !.pc = "dispatch"]]
                   /\ triggeredAlerts' = IF dbOk
                                         THEN triggeredAlerts \o triggeredAlertData
                                         ELSE triggeredAlerts
           ELSE /\ pass' = [pass EXCEPT ![p] = [@ EXCEPT !.pc = "dispatch"]]
                /\ UNCHANGED triggeredAlerts
    /\ UNCHANGED <<now, users, rules, priceHistory, api>>

(* Variant: sendNotifications is called without the length check. *)
NotificationBatches_Unguarded(triggeredRules) == <<triggeredRules>>

(* Send notifications only for rules not suppressed by quiet time: the    *)
(* batches handed to sendNotifications.                                    *)
NotificationBatches(triggeredRules) ==
    IF Len(triggeredRules) > 0 THEN <<triggeredRules>> ELSE <<>>

SENT == "sent"
FAILED == "failed"
THREW == "threw"

(* sendNotifications: one sendEmailNotification per event, in order.  The  *)
(* mail service accepts the message (sent) or the send reports an error or *)
(* raises inside the try (failed); either way the loop counts the result   *)
(* and goes on.  results[i] tells whether the i-th send succeeds.          *)
sendNotifications(ps, batch, results) ==
    [ps EXCEPT
        !.sendNotificationsCalls = Append(@, batch),
        !.emails = [i \in DOMAIN batch |->
                       [ruleId |-> batch[i].ruleId,
                        result |-> IF results[i] THEN SENT ELSE FAILED]],
        !.successCount = Cardinality({i \in DOMAIN batch : results[i]}),
        !.failureCount = Cardinality({i \in DOMAIN batch : ~results[i]}),
        !.pc = "prune"]

(* Without RESEND_API_KEY getResendClient raises before the try of the     *)
(* first sendEmailNotification: nothing is counted, the remaining events   *)
(* are not attempted, and the error leaves sendNotifications and           *)
(* evaluateRules for the handler's catch (status 500, no pruning).         *)
sendNotificationsWithoutKey(ps, batch) ==
    [ps EXCEPT
        !.sendNotificationsCalls = Append(@, batch),
        !.emails = IF batch = <<>> THEN <<>>
                   ELSE <<[ruleId |-> batch[1].ruleId, result |-> THREW]>>,
        !.pc = IF batch = <<>> THEN "prune" ELSE "failed"]

Dispatch(p) ==
    /\ pass[p].pc = "dispatch"
    /\ LET batches == NotificationBatches(pass[p].triggeredRules)
       IN  IF batches = <<>>
           THEN pass' = [pass EXCEPT ![p] = [@ EXCEPT !.pc = "prune"]]
           ELSE \/ \E results \in [DOMAIN batches[1] -> BOOLEAN] :
                     pass' = [pass EXCEPT ![p] =
                                 sendNotifications(@, batches[1], results)]
                \/ pass' = [pass EXCEPT ![p] =
                                sendNotificationsWithoutKey(@, batches[1])]
    /\ UNCHANGED <<now, users, rules, priceHistory, triggeredAlerts, api>>

(* pruneOldPriceHistory: delete the rows older than seven days; the       *)
(* handler then responds and its locals are gone.                          *)
Prune(p) ==
    /\ pass[p].pc = "prune"
    /\ priceHistory' =
          {s \in priceHistory :
              ~(s.timestamp < now - PruneRetentionDays * MinutesPerDay)}
    /\ pass' = [pass EXCEPT ![p] = IdlePass]
    /\ UNCHANGED <<now, users, rules, triggeredAlerts, api>>

-----------------------------------------------------------------------------
(* Cron invocations never overlap: invocation 1 runs them one by one.      *)

Next ==
    \/ Tick
    \/ CronFetch(1)
    \/ LoadRules(1)
    \/ LoadPrices(1)
    \/ LoadFail(1)
    \/ EvalRule(1)
    \/ RecordAlerts(1)
    \/ Dispatch(1)
    \/ Prune(1)

Spec == Init /\ [][Next]_vars

-----------------------------------------------------------------------------
(* Two invocations that may overlap, around a long period without price   *)
(* updates: the cron job is triggered by plain HTTP requests and nothing   *)
(* serialises them.  The feed here lists both assets, so that an           *)
(* invocation can store rows (and evaluate) without refreshing a1, and     *)
(* the pruning step of one invocation can delete the row that the other    *)
(* invocation holds as the latest price of a1.                             *)

StalePriceValues == [a1 |-> {100}, a2 |-> {100}]

StalePriceDataChoices == PriceDataChoicesOf(StalePriceValues)

IdleSteps == {PruneRetentionDays * MinutesPerDay}

(* The clock jumps over a period in which nothing happens. *)
Idle ==
    /\ \E d \in IdleSteps :
          /\ now + d <= MaxLateTime + PruneRetentionDays * MinutesPerDay
          /\ now' = now + d
    /\ UNCHANGED <<users, rules, priceHistory, triggeredAlerts, pass, api>>

InitStale ==
    /\ Init
    /\ ~users["u1"].quietTimeEnabled
    /\ rules["r1"].type = PERCENT_CHANGE_INCREASE
    /\ ~rules["r2"].isEnabled

NextStale ==
    \/ Tick
    \/ Idle
    \/ \E p \in PassIds : CronFetchFrom(p, StalePriceDataChoices)
    \/ \E p \in PassIds : LoadRules(p)
    \/ \E p \in PassIds : LoadPrices(p)
    \/ \E p \in PassIds : LoadFail(p)
    \/ \E p \in PassIds : EvalRule(p)
    \/ \E p \in PassIds : RecordAlerts(p)
    \/ \E p \in PassIds : Dispatch(p)
    \/ \E p \in PassIds : Prune(p)

SpecStale == InitStale /\ [][NextStale]_vars

-----------------------------------------------------------------------------
(* The evaluation under every quiet time setting, with price target rules. *)

InitQuiet ==
    InitWith(QuietConfigs \cup EdgeQuietConfigs,
             {tpl \in RuleTemplates : tpl.type = PRICE_TARGET_ABOVE})

SpecQuiet == InitQuiet /\ [][Next]_vars

-----------------------------------------------------------------------------
(* Two invocations that may overlap within one cooldown period: one        *)
(* enabled price target of u1 on a1, the feed has a1 at 110.               *)

OverlapPriceValues == [a1 |-> {110}, a2 |-> {}]

OverlapPriceDataChoices == PriceDataChoicesOf(OverlapPriceValues)

InitOverlap ==
    /\ InitWith(QuietConfigs, {tpl \in RuleTemplates : tpl.type = PRICE_TARGET_ABOVE})
    /\ ~rules["r2"].isEnabled

NextOverlap ==
    \/ Tick
    \/ \E p \in PassIds : CronFetchFrom(p, OverlapPriceDataChoices)
    \/ \E p \in PassIds : LoadRules(p)
    \/ \E p \in PassIds : LoadPrices(p)
    \/ \E p \in PassIds : LoadFail(p)
    \/ \E p \in PassIds : EvalRule(p)
    \/ \E p \in PassIds : RecordAlerts(p)
    \/ \E p \in PassIds : Dispatch(p)
    \/ \E p \in PassIds : Prune(p)

SpecOverlap == InitOverlap /\ [][NextOverlap]_vars

-----------------------------------------------------------------------------
(* The rule management API: POST /api/notification-rules, PATCH and DELETE *)
(* /api/notification-rules/[ruleId].  api.status is the status of the last *)
(* response, api.issued the number of rule ids the database has generated. *)

(* Rule ids in the order the database generates them; an id is never       *)
(* issued twice.                                                           *)
RuleIdOrder == <<"r1", "r2">>

IssuableRuleIds == {RuleIdOrder[i] : i \in DOMAIN RuleIdOrder}

StatusOk == 200
StatusCreated == 201
StatusBadRequest == 400
StatusUnauthorized == 401
StatusForbidden == 403
StatusNotFound == 404
StatusServerError == 500

MinTimeWindowHours == 1
MaxTimeWindowHours == 72

(* getCurrentUser: nobody, or the signed-in user. *)
Sessions == {<<>>, <<"u1">>, <<"u2">>}

(* A JSON number sent as timeWindowHours is carried in half hours, so that *)
(* a body can hold 1.5; an absent field is the empty sequence.             *)
HalvesPerHour == 2

IsInt(halves) == halves % HalvesPerHour = 0

Hours(halves) == halves \div HalvesPerHour

(* Request bodies of POST: complete ones, percentage rules whose window is *)
(* absent, 0, 1.5 or 73 hours, a window of 73 hours on an unknown tracked  *)
(* asset, the tracked asset of another user and an unknown tracked asset.  *)
PostBodies ==
    { [trackedAssetId |-> "t1", type |-> PRICE_TARGET_ABOVE, value |-> 100,
       timeWindowHours |-> <<>>],
      [trackedAssetId |-> "t1", type |-> PERCENT_CHANGE_INCREASE, value |-> 10,
       timeWindowHours |-> <<MinTimeWindowHours * HalvesPerHour>>],
      [trackedAssetId |-> "t1", type |-> PERCENT_CHANGE_DECREASE, value |-> -10,
       timeWindowHours |-> <<MaxTimeWindowHours * HalvesPerHour>>],
      [trackedAssetId |-> "t1", type |-> PERCENT_CHANGE_INCREASE, value |-> 10,
       timeWindowHours |-> <<>>],
      [trackedAssetId |-> "t1", type |-> PERCENT_CHANGE_INCREASE, value |-> 10,
       timeWindowHours |-> <<0>>],
      [trackedAssetId |-> "t1", type |-> PERCENT_CHANGE_INCREASE, value |-> 10,
       timeWindowHours |-> <<MinTimeWindowHours * HalvesPerHour + 1>>],
      [trackedAssetId |-> "t1", type |-> PERCENT_CHANGE_DECREASE, value |-> 10,
       timeWindowHours |-> <<(MaxTimeWindowHours + 1) * HalvesPerHour>>],
      [trackedAssetId |-> "t9", type |-> PERCENT_CHANGE_DECREASE, value |-> 10,
       timeWindowHours |-> <<(MaxTimeWindowHours + 1) * HalvesPerHour>>],
      [trackedAssetId |-> "t3", type |-> PRICE_TARGET_ABOVE, value |-> 100,
       timeWindowHours |-> <<>>],
      [trackedAssetId |-> "t9", type |-> PRICE_TARGET_ABOVE, value |-> 100,
       timeWindowHours |-> <<>>] }

(* Variant: the schema without its refinement, a percentage rule may come  *)
(* without a window.                                                       *)
createRuleSchema_WindowOptional(body) ==
    /\ body.type \in NotificationRuleType
    /\ \/ body.timeWindowHours = <<>>
       \/ /\ IsInt(body.timeWindowHours[1])
          /\ Hours(body.timeWindowHours[1]) >= MinTimeWindowHours
          /\ Hours(body.timeWindowHours[1]) <= MaxTimeWindowHours

(* createRuleSchema.safeParse(rawBody).success: value is any number,       *)
(* timeWindowHours is optional but an integer from 1 to 72 when present,   *)
(* and the refinement requires it for the percentage types.                *)
createRuleSchema(body) ==
    /\ body.type \in NotificationRuleType
    /\ \/ body.timeWindowHours = <<>>
       \/ /\ IsInt(body.timeWindowHours[1])
          /\ Hours(body.timeWindowHours[1]) >= MinTimeWindowHours
          /\ Hours(body.timeWindowHours[1]) <= MaxTimeWindowHours
    /\ IsPercentType(body.type) => body.timeWindowHours # <<>>

(* The status POST answers with; dbOk tells whether the database answers   *)
(* the queries of the handler.                                             *)
PostStatus(session, body, dbOk) ==
    IF session = <<>> THEN StatusUnauthorized
    ELSE IF ~createRuleSchema(body) THEN StatusBadRequest
    ELSE IF ~dbOk THEN StatusServerError
    ELSE IF body.trackedAssetId \notin TrackedAssetIds THEN StatusNotFound
    ELSE IF TrackedAssets[body.trackedAssetId].userId # session[1] THEN StatusForbidden
    ELSE StatusCreated

(* The row notificationRule.create stores: the window as sent (null, here  *)
(* 0, when absent), enabled.                                               *)
NewRule(body) ==
    [type |-> body.type,
     value |-> body.value,
     timeWindowHours |-> IF body.timeWindowHours = <<>> THEN 0
                         ELSE Hours(body.timeWindowHours[1]),
     trackedAssetId |-> body.trackedAssetId,
     isEnabled |-> TRUE]

Post(session, body, dbOk) ==
    LET status == PostStatus(session, body, dbOk)
    IN  /\ (status = StatusCreated => api.issued < Len(RuleIdOrder))
        /\ (~dbOk => status = StatusServerError)
        /\ rules' = IF status = StatusCreated
                    THEN Put(rules, RuleIdOrder[api.issued + 1], NewRule(body))
                    ELSE rules
        /\ api' = [issued |-> IF status = StatusCreated
                              THEN api.issued + 1 ELSE api.issued,
                   status |-> status]
        /\ UNCHANGED <<now, users, priceHistory, triggeredAlerts, pass>>

PostRuleFrom(sessions, bodies) ==
    \E session \in sessions, body \in bodies, dbOk \in BOOLEAN :
        Post(session, body, dbOk)

PostRule == PostRuleFrom(Sessions, PostBodies)

(* verifyRuleOwnership and the answer of PATCH and DELETE. *)
RuleStatus(session, ruleId, dbOk) ==
    IF session = <<>> THEN StatusUnauthorized
    ELSE IF ~dbOk THEN StatusServerError
    ELSE IF ruleId \notin DOMAIN rules THEN StatusNotFound
    ELSE IF TrackedAssets[rules[ruleId].trackedAssetId].userId # session[1]
         THEN StatusForbidden
    ELSE StatusOk

(* Bodies of PATCH: isEnabled, alone or next to a window of 100 hours.     *)
PatchBodies ==
    {[isEnabled |-> e, timeWindowHours |-> w] :
        e \in BOOLEAN, w \in {<<>>, <<100 * HalvesPerHour>>}}

(* updateRuleSchema keeps isEnabled and drops every other key of the body; *)
(* notificationRule.update writes it.                                      *)
updateRuleSchema(body, rule) ==
    [rule EXCEPT !.isEnabled = body.isEnabled]

Patch(session, ruleId, body, dbOk) ==
    LET status == RuleStatus(session, ruleId, dbOk)
    IN  /\ (~dbOk => status = StatusServerError)
        /\ rules' = IF status = StatusOk
                    THEN [rules EXCEPT ![ruleId] = updateRuleSchema(body, @)]
                    ELSE rules
        /\ api' = [api EXCEPT !.status = status]
        /\ UNCHANGED <<now, users, priceHistory, triggeredAlerts, pass>>

PatchRuleFrom(sessions, bodies) ==
    \E session \in sessions, ruleId \in IssuableRuleIds,
       body \in bodies, dbOk \in BOOLEAN :
        Patch(session, ruleId, body, dbOk)

PatchRule == PatchRuleFrom(Sessions, PatchBodies)

(* notificationRule.delete; the TriggeredAlert rows of the rule go with    *)
(* it (onDelete: Cascade).                                                 *)
Delete(session, ruleId, dbOk) ==
    LET status == RuleStatus(session, ruleId, dbOk)
    IN  /\ (~dbOk => status = StatusServerError)
        /\ rules' = IF status = StatusOk
                    THEN [r \in DOMAIN rules \ {ruleId} |-> rules[r]]
                    ELSE rules
        /\ triggeredAlerts' =
              IF status = StatusOk
              THEN SelectSeq(triggeredAlerts, LAMBDA row : row.ruleId # ruleId)
              ELSE triggeredAlerts
        /\ api' = [api EXCEPT !.status = status]
        /\ UNCHANGED <<now, users, priceHistory, pass>>

DeleteRuleFrom(sessions) ==
    \E session \in sessions, ruleId \in IssuableRuleIds, dbOk \in BOOLEAN :
        Delete(session, ruleId, dbOk)

DeleteRule == DeleteRuleFrom(Sessions)

(* The API on its own: every request, no cron invocation. *)
InitApi ==
    /\ now = 0
    /\ users = [u \in UserIds |-> QuietDisabled]
    /\ rules = <<>>
    /\ priceHistory = {}
    /\ triggeredAlerts = <<>>
    /\ pass = [p \in PassIds |-> IdlePass]
    /\ api = [issued |-> 0, status |-> 0]

NextApi ==
    \/ PostRule
    \/ PatchRule
    \/ DeleteRule

SpecApi == InitApi /\ [][NextApi]_vars

(* Rules managed while the cron job runs: u1 adds price targets on a1,     *)
(* switches them off and on and deletes them; the feed has a1 at 110.      *)
ManagePriceValues == [a1 |-> {110}, a2 |-> {}]

ManagePriceDataChoices == PriceDataChoicesOf(ManagePriceValues)

ManageSessions == {<<"u1">>}

ManagePostBodies ==
    {body \in PostBodies :
        body.type = PRICE_TARGET_ABOVE /\ body.trackedAssetId = "t1"}

ManagePatchBodies == {body \in PatchBodies : body.timeWindowHours = <<>>}

NextManage ==
    \/ Tick
    \/ PostRuleFrom(ManageSessions, ManagePostBodies)
    \/ PatchRuleFrom(ManageSessions, ManagePatchBodies)
    \/ DeleteRuleFrom(ManageSessions)
    \/ CronFetchFrom(1, ManagePriceDataChoices)
    \/ LoadRules(1)
    \/ LoadPrices(1)
    \/ LoadFail(1)
    \/ EvalRule(1)
    \/ RecordAlerts(1)
    \/ Dispatch(1)
    \/ Prune(1)

SpecManage == InitApi /\ [][NextManage]_vars

-----------------------------------------------------------------------------
(* Vocabulary of the properties.                                           *)

(* The invocation ended in the handler's catch before sendNotifications    *)
(* was reached.                                                            *)
AbortedBeforeDispatch(ps) ==
    /\ ps.pc = "failed"
    /\ ps.sendNotificationsCalls = <<>>

RECURSIVE Flatten(_)
Flatten(ss) == IF ss = <<>> THEN <<>> ELSE Head(ss) \o Flatten(Tail(ss))

CountRule(rows, r) == Cardinality({i \in DOMAIN rows : rows[i].ruleId = r})

(* Every row the pass asked the database to insert, by create or createMany. *)
WriteRequests(ps) == ps.createCalls \o Flatten(ps.createManyCalls)

(* Every event the pass handed to sendNotifications. *)
DispatchedEvents(ps) == Flatten(ps.sendNotificationsCalls)

(* evaluateRules has gone through its loop and its createMany step. *)
Recorded(ps) == ps.pc \in {"dispatch", "prune"}

(* evaluateRules has returned. *)
Returned(ps) == ps.pc = "prune"

Evaluated(ps) == DOMAIN ps.log

HasLatestPrice(ps, r) == ps.activeRules[r].assetId \in DOMAIN ps.latestPricesMap

LatestPriceOf(ps, r) == ps.latestPricesMap[ps.activeRules[r].assetId]

(* The most recent alert loaded with the rule is younger than 60 minutes   *)
(* at the instant the rule was looked at.                                  *)
WithinCooldownWindow(ps, r) ==
    /\ ps.activeRules[r].triggeredAlerts # <<>>
    /\ ps.log[r].evalAt - ps.activeRules[r].triggeredAlerts[1].triggeredAt < 60

(* The rule went through condition evaluation and its condition held. *)
MetInPass(ps, r) ==
    /\ r \in Evaluated(ps)
    /\ HasLatestPrice(ps, r)
    /\ ~WithinCooldownWindow(ps, r)
    /\ ps.log[r].outcome # "ERROR"
    /\ ConditionMet(ps.activeRules[r], LatestPriceOf(ps, r), ps.log[r].startPriceRecord)

-----------------------------------------------------------------------------
(* C1: in one pass every enabled rule that has a latest price, is not in   *)
(* cooldown and whose condition is met has exactly one TriggeredAlert      *)
(* write requested for it, carrying the latest price as triggeringPrice,   *)
(* whether quiet time suppressed it or not; unless the database rejects    *)
(* the write, exactly that one row is inserted.                            *)
C1_OneRecordPerMetRule ==
    \A p \in PassIds :
        Recorded(pass[p]) =>
            \A r \in Evaluated(pass[p]) :
                MetInPass(pass[p], r) =>
                    /\ CountRule(WriteRequests(pass[p]), r) = 1
                    /\ \A i \in DOMAIN WriteRequests(pass[p]) :
                          WriteRequests(pass[p])[i].ruleId = r =>
                              WriteRequests(pass[p])[i].triggeringPrice
                                  = LatestPriceOf(pass[p], r).price
                    /\ CountRule(pass[p].inserted, r)
                          = (IF r \in pass[p].rejected THEN 0 ELSE 1)
                    /\ \A i \in DOMAIN pass[p].inserted :
                          pass[p].inserted[i].ruleId = r =>
                              pass[p].inserted[i].triggeringPrice
                                  = LatestPriceOf(pass[p], r).price

(* A pass recorded one rule suppressed by quiet time and one notified. *)
C1_Witness ==
    \E p \in PassIds :
        /\ Recorded(pass[p])
        /\ \E r, q \in Evaluated(pass[p]) :
              /\ MetInPass(pass[p], r) /\ pass[p].log[r].quiet = <<TRUE>>
              /\ MetInPass(pass[p], q) /\ pass[p].log[q].quiet = <<FALSE>>
              /\ CountRule(pass[p].inserted, r) = 1
              /\ CountRule(pass[p].inserted, q) = 1

-----------------------------------------------------------------------------
(* C2: the events handed to the dispatcher in a pass are exactly the rules *)
(* that were met, not cooldown-skipped and not suppressed by quiet time,   *)
(* each once; sendNotifications is called once with the whole batch when   *)
(* that set is non-empty and not at all when it is empty.                  *)
NotifySet(ps) ==
    {r \in Evaluated(ps) : MetInPass(ps, r) /\ ps.log[r].quiet # <<TRUE>>}

C2_DispatchExactlyNotifySet ==
    \A p \in PassIds :
        Returned(pass[p]) =>
            /\ Len(pass[p].sendNotificationsCalls)
                  = (IF NotifySet(pass[p]) = {} THEN 0 ELSE 1)
            /\ {DispatchedEvents(pass[p])[i].ruleId :
                    i \in DOMAIN DispatchedEvents(pass[p])} = NotifySet(pass[p])
            /\ \A r \in NotifySet(pass[p]) :
                  CountRule(DispatchedEvents(pass[p]), r) = 1

(* A pass dispatched one batch holding two events. *)
C2_Witness ==
    \E p \in PassIds :
        /\ Returned(pass[p])
        /\ Cardinality(NotifySet(pass[p])) = 2
        /\ Len(pass[p].sendNotificationsCalls) = 1

(* A pass evaluated rules and returned without calling the dispatcher. *)
C2_WitnessEmpty ==
    \E p \in PassIds :
        /\ Returned(pass[p])
        /\ Evaluated(pass[p]) # {}
        /\ NotifySet(pass[p]) = {}

-----------------------------------------------------------------------------
(* C3: a rule whose condition is met while its owner's quiet time is       *)
(* active is never among the events passed to the dispatcher; when every   *)
(* met rule of the pass is suppressed, sendNotifications is not called and *)
(* createMany is not used.                                                 *)
SuppressedInPass(ps, r) ==
    /\ MetInPass(ps, r)
    /\ isQuietTime(ps.activeRules[r].user, ps.log[r].evalAt)

C3_SuppressedNeverDispatched ==
    \A p \in PassIds :
        /\ \A r \in Evaluated(pass[p]) :
              SuppressedInPass(pass[p], r) =>
                  /\ CountRule(DispatchedEvents(pass[p]), r) = 0
                  /\ CountRule(pass[p].triggeredRules, r) = 0
        /\ (/\ Returned(pass[p])
            /\ \A r \in Evaluated(pass[p]) :
                  MetInPass(pass[p], r) => SuppressedInPass(pass[p], r))
           => /\ pass[p].sendNotificationsCalls = <<>>
              /\ pass[p].createManyCalls = <<>>

(* A pass returned in which a rule was met and every met rule was         *)
(* suppressed.                                                             *)
C3_Witness ==
    \E p \in PassIds :
        /\ Returned(pass[p])
        /\ \E r \in Evaluated(pass[p]) : SuppressedInPass(pass[p], r)
        /\ \A r \in Evaluated(pass[p]) :
              MetInPass(pass[p], r) => SuppressedInPass(pass[p], r)

-----------------------------------------------------------------------------
(* C4: a rule with a latest price is skipped for cooldown if and only if   *)
(* its most recent alert was triggered strictly later than now - 60        *)
(* minutes; without a prior alert it is never skipped and an alert exactly *)
(* 60 minutes old does not cause a skip.                                   *)
C4_CooldownGate ==
    \A p \in PassIds :
        \A r \in Evaluated(pass[p]) :
            HasLatestPrice(pass[p], r) =>
                /\ (pass[p].log[r].outcome = "SKIPPED_COOLDOWN")
                      <=> WithinCooldownWindow(pass[p], r)
                /\ pass[p].activeRules[r].triggeredAlerts = <<>>
                      => pass[p].log[r].outcome # "SKIPPED_COOLDOWN"
                /\ (/\ pass[p].activeRules[r].triggeredAlerts # <<>>
                    /\ pass[p].log[r].evalAt
                          - pass[p].activeRules[r].triggeredAlerts[1].triggeredAt = 60)
                      => pass[p].log[r].outcome # "SKIPPED_COOLDOWN"

(* A rule looked at exactly 60 minutes after its last alert was evaluated. *)
C4_Witness ==
    \E p \in PassIds :
        \E r \in Evaluated(pass[p]) :
            /\ HasLatestPrice(pass[p], r)
            /\ pass[p].activeRules[r].triggeredAlerts # <<>>
            /\ pass[p].log[r].evalAt
                  - pass[p].activeRules[r].triggeredAlerts[1].triggeredAt = 60
            /\ pass[p].log[r].outcome \in {"MET_NOTIFIED", "MET_SUPPRESSED"}

(* A rule looked at 30 minutes after its last alert was skipped. *)
C4_WitnessSkip ==
    \E p \in PassIds :
        \E r \in Evaluated(pass[p]) :
            /\ pass[p].log[r].outcome = "SKIPPED_COOLDOWN"
            /\ pass[p].log[r].evalAt
                  - pass[p].activeRules[r].triggeredAlerts[1].triggeredAt = 30

-----------------------------------------------------------------------------
(* C5: the cooldown skip precedes condition evaluation: for a rule in      *)
(* cooldown the pass makes no historical price lookup and no quiet time    *)
(* check, requests no TriggeredAlert and dispatches nothing, even when the *)
(* condition holds for the current latest price.                           *)
C5_CooldownSkipsEvaluation ==
    \A p \in PassIds :
        \A r \in Evaluated(pass[p]) :
            (HasLatestPrice(pass[p], r) /\ WithinCooldownWindow(pass[p], r)) =>
                /\ ~pass[p].log[r].lookedUp
                /\ pass[p].log[r].quiet = <<>>
                /\ CountRule(WriteRequests(pass[p]), r) = 0
                /\ CountRule(pass[p].inserted, r) = 0
                /\ CountRule(pass[p].triggeredRules, r) = 0
                /\ CountRule(DispatchedEvents(pass[p]), r) = 0

(* A pass returned having skipped a price-target rule in cooldown whose    *)
(* condition holds for the latest price.                                   *)
C5_Witness ==
    \E p \in PassIds :
        /\ Returned(pass[p])
        /\ \E r \in Evaluated(pass[p]) :
              /\ HasLatestPrice(pass[p], r)
              /\ WithinCooldownWindow(pass[p], r)
              /\ ~IsPercentType(pass[p].activeRules[r].type)
              /\ ConditionMet(pass[p].activeRules[r], LatestPriceOf(pass[p], r), <<>>)

-----------------------------------------------------------------------------
(* C6: with passes that do not overlap, any two TriggeredAlert rows of the *)
(* same rule have triggeredAt values at least 60 minutes apart, whether    *)
(* the firings were notified or suppressed.                                *)
Abs(x) == IF x < 0 THEN -x ELSE x

C6_OneFiringPerCooldownWindow ==
    \A i, j \in DOMAIN triggeredAlerts :
        (i # j /\ triggeredAlerts[i].ruleId = triggeredAlerts[j].ruleId) =>
            Abs(triggeredAlerts[i].triggeredAt - triggeredAlerts[j].triggeredAt) >= 60

(* One rule has two recorded firings, exactly 60 minutes apart. *)
C6_Witness ==
    \E i, j \in DOMAIN triggeredAlerts :
        /\ i < j
        /\ triggeredAlerts[i].ruleId = triggeredAlerts[j].ruleId
        /\ triggeredAlerts[j].triggeredAt - triggeredAlerts[i].triggeredAt = 60

-----------------------------------------------------------------------------
(* C7: PERCENT_CHANGE_DECREASE with a non-zero historical price h and      *)
(* latest price p is met if and only if (p - h)/h*100 <= -abs(rule.value); *)
(* a drop smaller than the threshold and any price increase are not met.   *)
C7_DecreaseUsesMagnitude ==
    \A p \in PassIds :
        \A r \in Evaluated(pass[p]) :
            (/\ pass[p].activeRules[r].type = PERCENT_CHANGE_DECREASE
             /\ pass[p].log[r].startPriceRecord # <<>>
             /\ pass[p].log[r].startPriceRecord[1].price # 0) =>
                LET h == pass[p].log[r].startPriceRecord[1].price
                    latest == LatestPriceOf(pass[p], r).price
                IN  (pass[p].log[r].outcome \in {"MET_NOTIFIED", "MET_SUPPRESSED"})
                        <=> ((latest - h) * 100
                                <= - Abs(pass[p].activeRules[r].value) * h)

-----------------------------------------------------------------------------
(* C8: for PERCENT_CHANGE_INCREASE the historical price h is the price of  *)
(* the earliest sample of the rule's asset with a timestamp at or after    *)
(* latest.timestamp - timeWindowHours; with a non-zero h the rule is met   *)
(* if and only if (p - h)/h*100 >= rule.value, a change exactly equal to   *)
(* the threshold included, and the triggering price is p.                  *)
C8_IncreaseFromEarliestInWindow ==
    \A p \in PassIds :
        \A r \in Evaluated(pass[p]) :
            (/\ pass[p].activeRules[r].type = PERCENT_CHANGE_INCREASE
             /\ pass[p].log[r].outcome \in {"NOT_MET", "MET_NOTIFIED", "MET_SUPPRESSED"}) =>
                LET rule == pass[p].activeRules[r]
                    latest == LatestPriceOf(pass[p], r)
                    windowStart == latest.timestamp - rule.timeWindowHours * 60
                    inWindow == {s \in priceHistory :
                                    s.assetId = rule.assetId /\ s.timestamp >= windowStart}
                    start == pass[p].log[r].startPriceRecord
                    met == pass[p].log[r].outcome \in {"MET_NOTIFIED", "MET_SUPPRESSED"}
                IN  /\ start # <<>>
                    /\ start[1] \in inWindow
                    /\ \A o \in inWindow : start[1].timestamp <= o.timestamp
                    /\ start[1].price # 0 =>
                          (met <=> ((latest.price - start[1].price) * 100
                                        >= rule.value * start[1].price))
                    /\ \A i \in DOMAIN WriteRequests(pass[p]) :
                          WriteRequests(pass[p])[i].ruleId = r =>
                              WriteRequests(pass[p])[i].triggeringPrice = latest.price
                    /\ \A i \in DOMAIN pass[p].triggeredRules :
                          pass[p].triggeredRules[i].ruleId = r =>
                              pass[p].triggeredRules[i].triggeringPrice = latest.price

(* An increase rule fired on a change exactly equal to its threshold,      *)
(* measured from a sample exactly at the start of its window.              *)
C8_Witness ==
    \E p \in PassIds :
        \E r \in Evaluated(pass[p]) :
            /\ pass[p].activeRules[r].type = PERCENT_CHANGE_INCREASE
            /\ pass[p].log[r].outcome \in {"MET_NOTIFIED", "MET_SUPPRESSED"}
            /\ pass[p].log[r].startPriceRecord # <<>>
            /\ pass[p].log[r].startPriceRecord[1].price = 100
            /\ pass[p].log[r].startPriceRecord[1].timestamp
                  = LatestPriceOf(pass[p], r).timestamp - 60
            /\ LatestPriceOf(pass[p], r).price = 110
            /\ pass[p].activeRules[r].value = 10

-----------------------------------------------------------------------------
(* C9: price target rules compare the latest price p strictly:             *)
(* PRICE_TARGET_ABOVE is met iff p > rule.value, PRICE_TARGET_BELOW iff    *)
(* p < rule.value, a price equal to rule.value fires neither kind, and no  *)
(* historical price is consulted for these kinds.                          *)
C9_PriceTargetsStrict ==
    \A p \in PassIds :
        \A r \in Evaluated(pass[p]) :
            (/\ ~IsPercentType(pass[p].activeRules[r].type)
             /\ HasLatestPrice(pass[p], r)
             /\ ~WithinCooldownWindow(pass[p], r)) =>
                LET rule == pass[p].activeRules[r]
                    latest == LatestPriceOf(pass[p], r).price
                    met == pass[p].log[r].outcome \in {"MET_NOTIFIED", "MET_SUPPRESSED"}
                IN  /\ pass[p].log[r].outcome
                          \in {"NOT_MET", "MET_NOTIFIED", "MET_SUPPRESSED"}
                    /\ rule.type = PRICE_TARGET_ABOVE => (met <=> latest > rule.value)
                    /\ rule.type = PRICE_TARGET_BELOW => (met <=> latest < rule.value)
                    /\ latest = rule.value => ~met
                    /\ ~pass[p].log[r].lookedUp
                    /\ pass[p].log[r].startPriceRecord = <<>>

(* An above rule and a below rule were both evaluated against a latest     *)
(* price equal to their value and neither fired.                           *)
C9_Witness ==
    \E p \in PassIds :
        \E r, q \in Evaluated(pass[p]) :
            /\ pass[p].activeRules[r].type = PRICE_TARGET_ABOVE
            /\ pass[p].activeRules[q].type = PRICE_TARGET_BELOW
            /\ HasLatestPrice(pass[p], r) /\ HasLatestPrice(pass[p], q)
            /\ LatestPriceOf(pass[p], r).price = pass[p].activeRules[r].value
            /\ LatestPriceOf(pass[p], q).price = pass[p].activeRules[q].value
            /\ pass[p].log[r].outcome = "NOT_MET"
            /\ pass[p].log[q].outcome = "NOT_MET"

-----------------------------------------------------------------------------
(* C10: when the historical price selected for a percentage rule is        *)
(* exactly zero the rule is not met, for every latest price and threshold, *)
(* and the pass requests no TriggeredAlert and no notification for it.     *)
C10_DivisionGuard ==
    \A p \in PassIds :
        \A r \in Evaluated(pass[p]) :
            (/\ IsPercentType(pass[p].activeRules[r].type)
             /\ pass[p].log[r].startPriceRecord # <<>>
             /\ pass[p].log[r].startPriceRecord[1].price = 0) =>
                /\ pass[p].log[r].outcome = "NOT_MET"
                /\ CountRule(WriteRequests(pass[p]), r) = 0
                /\ CountRule(pass[p].triggeredRules, r) = 0

-----------------------------------------------------------------------------
(* The historical lookup of the rule returned, and returned no row. *)
NoHistoricalSample(ps, r) ==
    /\ r \in Evaluated(ps)
    /\ ps.log[r].lookedUp
    /\ ps.log[r].outcome # "ERROR"
    /\ ps.log[r].startPriceRecord = <<>>

(* The rule is a percentage rule stored without timeWindowHours and got    *)
(* as far as the switch over its type.                                     *)
NoTimeWindow(ps, r) ==
    /\ r \in Evaluated(ps)
    /\ IsPercentType(ps.activeRules[r].type)
    /\ ps.activeRules[r].timeWindowHours = 0
    /\ ps.log[r].outcome \notin {"NO_PRICE", "SKIPPED_COOLDOWN"}

(* C11: a percentage rule whose historical lookup returns no sample, or    *)
(* that has no timeWindowHours, is not met in that pass: isQuietTime is    *)
(* not consulted for it, no TriggeredAlert write is requested or inserted  *)
(* for it, it is not queued for or handed to sendNotifications, and no     *)
(* error is raised for it.                                                 *)
C11_MissingHistoryIsNotMet ==
    \A p \in PassIds :
        \A r \in Evaluated(pass[p]) :
            (NoHistoricalSample(pass[p], r) \/ NoTimeWindow(pass[p], r)) =>
                /\ pass[p].log[r].outcome = "NOT_MET"
                /\ pass[p].log[r].quiet = <<>>
                /\ CountRule(WriteRequests(pass[p]), r) = 0
                /\ CountRule(pass[p].inserted, r) = 0
                /\ CountRule(pass[p].triggeredRules, r) = 0
                /\ CountRule(DispatchedEvents(pass[p]), r) = 0

(* evaluateRules returned after the lookup of a percentage rule found no   *)
(* row: the latest price it held had been pruned by another invocation.    *)
C11_Witness ==
    \E p \in PassIds :
        /\ Returned(pass[p])
        /\ \E r \in Evaluated(pass[p]) :
              /\ NoHistoricalSample(pass[p], r)
              /\ LatestPriceOf(pass[p], r) \notin priceHistory

-----------------------------------------------------------------------------
(* Vocabulary of the quiet time properties.                                *)

(* Quiet time is enabled and start, end and zone are all present. *)
QuietSettingsComplete(user) ==
    /\ user.quietTimeEnabled
    /\ user.quietTimeStart # <<>>
    /\ user.quietTimeEnd # <<>>
    /\ user.quietTimeZone # <<>>

TimeParses(parts) == Len(parts) = 2 /\ parts[1] # NaN /\ parts[2] # NaN

(* Complete settings whose zone resolves and whose times parse. *)
QuietSettingsUsable(user) ==
    /\ QuietSettingsComplete(user)
    /\ user.quietTimeZone[1] \in DOMAIN ZoneOffsets
    /\ TimeParses(user.quietTimeStart)
    /\ TimeParses(user.quietTimeEnd)

ClockTime(parts) == parts[1] * 60 + parts[2]

(* The local time of day of the instant in the user's zone. *)
LocalTimeAt(user, instant) ==
    (instant + ZoneOffsets[user.quietTimeZone[1]] + 1440) % 1440

(* Rule r got a quiet time decision in the pass. *)
QuietDecided(ps, r) == r \in Evaluated(ps) /\ ps.log[r].quiet # <<>>

(* C12: for usable settings with start < end, the quiet time decision for  *)
(* a met rule is true exactly when start <= t < end, where t is the local  *)
(* time of day of the evaluation instant in the user's zone: true at       *)
(* exactly the start time and false at exactly the end time.               *)
C12_SameDayWindowHalfOpen ==
    \A p \in PassIds :
        \A r \in Evaluated(pass[p]) :
            LET user == pass[p].activeRules[r].user IN
            (/\ QuietDecided(pass[p], r)
             /\ QuietSettingsUsable(user)
             /\ ClockTime(user.quietTimeStart) < ClockTime(user.quietTimeEnd)) =>
                LET t == LocalTimeAt(user, pass[p].log[r].evalAt) IN
                pass[p].log[r].quiet[1]
                    = (ClockTime(user.quietTimeStart) <= t
                         /\ t < ClockTime(user.quietTimeEnd))

(* C13: for usable settings with start > end (a window over midnight) the  *)
(* quiet time decision for a met rule is true exactly when t >= start or   *)
(* t < end, where t is the local time of day of the evaluation instant in  *)
(* the user's zone.                                                        *)
C13_OvernightWindow ==
    \A p \in PassIds :
        \A r \in Evaluated(pass[p]) :
            LET user == pass[p].activeRules[r].user IN
            (/\ QuietDecided(pass[p], r)
             /\ QuietSettingsUsable(user)
             /\ ClockTime(user.quietTimeStart) > ClockTime(user.quietTimeEnd)) =>
                LET t == LocalTimeAt(user, pass[p].log[r].evalAt) IN
                pass[p].log[r].quiet[1]
                    = (t >= ClockTime(user.quietTimeStart)
                         \/ t < ClockTime(user.quietTimeEnd))

(* A pass in which one rule of a user with an overnight window met at      *)
(* exactly the end time and was notified, and a later rule of the same     *)
(* user met at exactly the start time and was suppressed.                  *)
C13_Witness ==
    \E p \in PassIds :
        \E r, q \in Evaluated(pass[p]) :
            LET user == pass[p].activeRules[r].user IN
            /\ QuietSettingsUsable(user)
            /\ ClockTime(user.quietTimeStart) > ClockTime(user.quietTimeEnd)
            /\ pass[p].activeRules[q].user = user
            /\ pass[p].log[r].quiet = <<FALSE>>
            /\ LocalTimeAt(user, pass[p].log[r].evalAt) = ClockTime(user.quietTimeEnd)
            /\ pass[p].log[q].quiet = <<TRUE>>
            /\ LocalTimeAt(user, pass[p].log[q].evalAt) = ClockTime(user.quietTimeStart)

(* C14: for usable settings with start equal to end the quiet time         *)
(* decision is false at every instant, the instant whose local time of     *)
(* day is exactly start / end included.                                    *)
C14_EmptyWindowNeverQuiet ==
    \A p \in PassIds :
        \A r \in Evaluated(pass[p]) :
            LET user == pass[p].activeRules[r].user IN
            (/\ QuietDecided(pass[p], r)
             /\ QuietSettingsUsable(user)
             /\ ClockTime(user.quietTimeStart) = ClockTime(user.quietTimeEnd)) =>
                pass[p].log[r].quiet = <<FALSE>>

(* C15: when quietTimeEnabled is false or one of quietTimeStart,           *)
(* quietTimeEnd, quietTimeZone is absent, the quiet time decision is       *)
(* false, so a met rule of such a user is queued for notification and,     *)
(* once evaluateRules has returned, was handed to sendNotifications once.  *)
C15_DisabledOrIncompleteNeverQuiet ==
    \A p \in PassIds :
        \A r \in Evaluated(pass[p]) :
            (/\ QuietDecided(pass[p], r)
             /\ ~QuietSettingsComplete(pass[p].activeRules[r].user)) =>
                /\ pass[p].log[r].quiet = <<FALSE>>
                /\ pass[p].log[r].outcome = "MET_NOTIFIED"
                /\ CountRule(pass[p].triggeredRules, r) = 1
                /\ Returned(pass[p]) => CountRule(DispatchedEvents(pass[p]), r) = 1

(* evaluateRules returned after notifying a met rule of a user whose       *)
(* quiet time is enabled with a window covering the instant but without a  *)
(* zone.                                                                   *)
C15_Witness ==
    \E p \in PassIds :
        /\ Returned(pass[p])
        /\ \E r \in Evaluated(pass[p]) :
              LET user == pass[p].activeRules[r].user IN
              /\ QuietDecided(pass[p], r)
              /\ user.quietTimeEnabled
              /\ user.quietTimeZone = <<>>
              /\ TimeParses(user.quietTimeStart)
              /\ TimeParses(user.quietTimeEnd)
              /\ CountRule(DispatchedEvents(pass[p]), r) = 1

(* evaluateRules returned after notifying a met rule of a user whose       *)
(* quiet time is disabled while start, end and zone cover the instant.     *)
C15_WitnessDisabled ==
    \E p \in PassIds :
        /\ Returned(pass[p])
        /\ \E r \in Evaluated(pass[p]) :
              LET user == pass[p].activeRules[r].user IN
              /\ QuietDecided(pass[p], r)
              /\ ~user.quietTimeEnabled
              /\ user.quietTimeStart # <<>>
              /\ user.quietTimeEnd # <<>>
              /\ user.quietTimeZone # <<>>
              /\ CountRule(DispatchedEvents(pass[p]), r) = 1

(* C16: when the settings are complete but the zone cannot be resolved or  *)
(* start or end cannot be parsed, the quiet time decision is false and no  *)
(* error reaches the rule loop: the met rule is recorded and notified like *)
(* any other, and every rule of the pass is evaluated.                     *)
C16_QuietTimeFailsOpen ==
    \A p \in PassIds :
        \A r \in Evaluated(pass[p]) :
            LET user == pass[p].activeRules[r].user IN
            (/\ MetInPass(pass[p], r)
             /\ QuietSettingsComplete(user)
             /\ ~QuietSettingsUsable(user)) =>
                /\ pass[p].log[r].quiet = <<FALSE>>
                /\ pass[p].log[r].outcome = "MET_NOTIFIED"
                /\ CountRule(pass[p].triggeredRules, r) = 1
                /\ Returned(pass[p]) =>
                      /\ CountRule(WriteRequests(pass[p]), r) = 1
                      /\ CountRule(DispatchedEvents(pass[p]), r) = 1
                      /\ Evaluated(pass[p]) = DOMAIN pass[p].activeRules

(* evaluateRules returned after a met rule of a user with an unknown zone  *)
(* was recorded and notified and a second rule was evaluated after it.     *)
C16_Witness ==
    \E p \in PassIds :
        /\ Returned(pass[p])
        /\ \E r, q \in Evaluated(pass[p]) :
              LET user == pass[p].activeRules[r].user IN
              /\ r # q
              /\ MetInPass(pass[p], r)
              /\ QuietSettingsComplete(user)
              /\ user.quietTimeZone[1] \notin DOMAIN ZoneOffsets
              /\ CountRule(pass[p].inserted, r) = 1
              /\ CountRule(DispatchedEvents(pass[p]), r) = 1
              /\ pass[p].log[q].evalAt > pass[p].log[r].evalAt

(* As C16_Witness, for a start time that does not parse. *)
C16_WitnessUnparsed ==
    \E p \in PassIds :
        /\ Returned(pass[p])
        /\ \E r \in Evaluated(pass[p]) :
              LET user == pass[p].activeRules[r].user IN
              /\ MetInPass(pass[p], r)
              /\ QuietSettingsComplete(user)
              /\ ~TimeParses(user.quietTimeStart)
              /\ CountRule(DispatchedEvents(pass[p]), r) = 1

(* C17: all quiet time decisions of one pass are taken for one and the     *)
(* same instant, so two met rules owned by the same user receive the same  *)
(* decision in the same pass.                                              *)
C17_OneInstantPerPass ==
    \A p \in PassIds :
        \A r, q \in Evaluated(pass[p]) :
            (/\ QuietDecided(pass[p], r)
             /\ QuietDecided(pass[p], q)
             /\ pass[p].activeRules[r].userId = pass[p].activeRules[q].userId) =>
                pass[p].log[r].quiet = pass[p].log[q].quiet

(* C18: a rule whose evaluation throws is treated as not met in that pass  *)
(* (no quiet time decision, no TriggeredAlert write, no notification), the *)
(* pass does not fail, and every other rule of the pass is still           *)
(* evaluated, recorded and notified: once evaluateRules has returned,      *)
(* every active rule was looked at, and every other met rule has its one   *)
(* write request and was handed to sendNotifications exactly when its      *)
(* quiet time decision was false.                                          *)
C18_ErrorIsolation ==
    \A p \in PassIds :
        \A r \in Evaluated(pass[p]) :
            pass[p].log[r].outcome = "ERROR" =>
                /\ ~AbortedBeforeDispatch(pass[p])
                /\ pass[p].log[r].quiet = <<>>
                /\ CountRule(WriteRequests(pass[p]), r) = 0
                /\ CountRule(pass[p].inserted, r) = 0
                /\ CountRule(pass[p].triggeredRules, r) = 0
                /\ CountRule(DispatchedEvents(pass[p]), r) = 0
                /\ Returned(pass[p]) =>
                      /\ Evaluated(pass[p]) = DOMAIN pass[p].activeRules
                      /\ \A q \in Evaluated(pass[p]) \ {r} :
                            MetInPass(pass[p], q) =>
                                /\ CountRule(WriteRequests(pass[p]), q) = 1
                                /\ CountRule(DispatchedEvents(pass[p]), q)
                                      = (IF pass[p].log[q].quiet = <<FALSE>> THEN 1 ELSE 0)

(* evaluateRules returned from a pass in which the lookup of one rule      *)
(* threw and another rule, evaluated after it, was met, recorded and       *)
(* notified.                                                               *)
C18_Witness ==
    \E p \in PassIds :
        /\ Returned(pass[p])
        /\ \E r, q \in Evaluated(pass[p]) :
              /\ pass[p].log[r].outcome = "ERROR"
              /\ MetInPass(pass[p], q)
              /\ pass[p].log[q].evalAt > pass[p].log[r].evalAt
              /\ CountRule(pass[p].inserted, q) = 1
              /\ CountRule(DispatchedEvents(pass[p]), q) = 1

(* C19: when the load of the enabled rules or of the latest prices fails,  *)
(* the pass aborts with a failure: no rule is evaluated, no TriggeredAlert *)
(* write is requested or inserted by it, and sendNotifications is not      *)
(* called.                                                                 *)
C19_LoadFailureAbortsPass ==
    \A p \in PassIds :
        pass[p].loadError =>
            /\ pass[p].pc = "failed"
            /\ Evaluated(pass[p]) = {}
            /\ WriteRequests(pass[p]) = <<>>
            /\ pass[p].inserted = <<>>
            /\ pass[p].triggeredRules = <<>>
            /\ pass[p].sendNotificationsCalls = <<>>

(* The load of the latest prices failed in a pass that had loaded a rule   *)
(* whose asset has a stored price above the rule's target, while alerts of *)
(* an earlier pass are stored.                                             *)
C19_Witness ==
    \E p \in PassIds :
        /\ pass[p].loadError
        /\ Len(triggeredAlerts) > 0
        /\ \E r \in DOMAIN pass[p].activeRules :
              /\ pass[p].activeRules[r].type = PRICE_TARGET_ABOVE
              /\ pass[p].activeRules[r].triggeredAlerts = <<>>
              /\ \E s \in LatestCandidates(priceHistory, pass[p].activeRules[r].assetId) :
                    s.price > pass[p].activeRules[r].value

(* C20: a rule whose asset has no latest price in a pass is skipped        *)
(* entirely: no historical lookup, no quiet time decision, no              *)
(* TriggeredAlert write, no notification and no error for it; the other    *)
(* rules of the pass are unaffected: once evaluateRules has returned,      *)
(* every active rule was looked at, and every other met rule has its one   *)
(* write request and was handed to sendNotifications exactly when its      *)
(* quiet time decision was false.                                          *)
C20_NoLatestPriceSkipsRule ==
    \A p \in PassIds :
        \A r \in Evaluated(pass[p]) :
            ~HasLatestPrice(pass[p], r) =>
                /\ pass[p].log[r].outcome = "NO_PRICE"
                /\ ~pass[p].log[r].lookedUp
                /\ pass[p].log[r].quiet = <<>>
                /\ CountRule(WriteRequests(pass[p]), r) = 0
                /\ CountRule(pass[p].inserted, r) = 0
                /\ CountRule(pass[p].triggeredRules, r) = 0
                /\ CountRule(DispatchedEvents(pass[p]), r) = 0
                /\ ~AbortedBeforeDispatch(pass[p])
                /\ Returned(pass[p]) =>
                      /\ Evaluated(pass[p]) = DOMAIN pass[p].activeRules
                      /\ \A q \in Evaluated(pass[p]) \ {r} :
                            MetInPass(pass[p], q) =>
                                /\ CountRule(WriteRequests(pass[p]), q) = 1
                                /\ CountRule(DispatchedEvents(pass[p]), q)
                                      = (IF pass[p].log[q].quiet = <<FALSE>> THEN 1 ELSE 0)

(* evaluateRules returned from a pass in which a rule on an asset without  *)
(* any stored price was skipped and a rule evaluated after it was met,     *)
(* recorded and notified.                                                  *)
C20_Witness ==
    \E p \in PassIds :
        /\ Returned(pass[p])
        /\ \E r, q \in Evaluated(pass[p]) :
              /\ ~HasLatestPrice(pass[p], r)
              /\ SamplesOf(priceHistory, pass[p].activeRules[r].assetId) = {}
              /\ MetInPass(pass[p], q)
              /\ pass[p].log[q].evalAt > pass[p].log[r].evalAt
              /\ CountRule(pass[p].inserted, q) = 1
              /\ CountRule(DispatchedEvents(pass[p]), q) = 1

-----------------------------------------------------------------------------
(* The terminal outcome of a rule in a pass, in the four outcomes of the   *)
(* per-rule state machine: a rule that was skipped for a missing price,    *)
(* whose lookup found nothing or whose evaluation threw counts as not met. *)
TerminalOutcomes == {"SKIPPED_COOLDOWN", "NOT_MET", "MET_SUPPRESSED", "MET_NOTIFIED"}

TerminalOutcome(ps, r) ==
    IF ps.log[r].outcome \in {"NO_PRICE", "ERROR"} THEN "NOT_MET"
    ELSE ps.log[r].outcome

(* C21: in every pass that completes, each loaded rule was looked at and   *)
(* ended in exactly one of the outcomes skipped for cooldown, not met,     *)
(* met and suppressed, met and notified; a TriggeredAlert write is         *)
(* requested for it by create exactly when it is met and suppressed, by    *)
(* createMany exactly when it is met and notified, and never for a rule    *)
(* that was skipped for cooldown or not met.                               *)
C21_PerRuleStateMachine ==
    \A p \in PassIds :
        Returned(pass[p]) =>
            /\ Evaluated(pass[p]) = DOMAIN pass[p].activeRules
            /\ \A r \in Evaluated(pass[p]) :
                  LET o == TerminalOutcome(pass[p], r) IN
                  /\ o \in TerminalOutcomes
                  /\ (CountRule(pass[p].createCalls, r) > 0) = (o = "MET_SUPPRESSED")
                  /\ (CountRule(Flatten(pass[p].createManyCalls), r) > 0)
                        = (o = "MET_NOTIFIED")
                  /\ o \in {"SKIPPED_COOLDOWN", "NOT_MET"} =>
                        /\ CountRule(WriteRequests(pass[p]), r) = 0
                        /\ CountRule(pass[p].inserted, r) = 0

(* A completed pass in which one rule was skipped for cooldown and the     *)
(* other was met and recorded.                                             *)
C21_Witness ==
    \E p \in PassIds :
        /\ Returned(pass[p])
        /\ \E r, q \in Evaluated(pass[p]) :
              /\ pass[p].log[r].outcome = "SKIPPED_COOLDOWN"
              /\ pass[p].log[q].outcome \in {"MET_SUPPRESSED", "MET_NOTIFIED"}
              /\ CountRule(pass[p].inserted, q) = 1

-----------------------------------------------------------------------------
Min(S) == CHOOSE x \in S : \A y \in S : x <= y

(* The instant at which the first rule of the pass was looked at. *)
FirstEvalAt(ps) == Min({ps.log[r].evalAt : r \in Evaluated(ps)})

(* What the loaded snapshot gives for rule r when it is the rule looked at *)
(* first: met, and met without quiet time.                                 *)
MetWhenFirst(ps, r) ==
    /\ HasLatestPrice(ps, r)
    /\ ~InCooldown(ps.activeRules[r].triggeredAlerts, FirstEvalAt(ps))
    /\ ConditionMet(ps.activeRules[r], LatestPriceOf(ps, r), <<>>)

NotifiedWhenFirst(ps, r) ==
    /\ MetWhenFirst(ps, r)
    /\ ~isQuietTime(ps.activeRules[r].user, FirstEvalAt(ps))

(* C22: the TriggeredAlert writes and the dispatched events of a pass do   *)
(* not depend on the order in which its rules are looked at: every rule    *)
(* gets the write and the notification it gets from the same snapshot      *)
(* when it is the first rule of the loop.  (Price target rules: their      *)
(* condition reads nothing but the loaded snapshot.)                       *)
C22_OrderIndependence ==
    \A p \in PassIds :
        Returned(pass[p]) =>
            \A r \in Evaluated(pass[p]) :
                ~IsPercentType(pass[p].activeRules[r].type) =>
                    /\ (CountRule(WriteRequests(pass[p]), r) > 0)
                          = MetWhenFirst(pass[p], r)
                    /\ (CountRule(DispatchedEvents(pass[p]), r) > 0)
                          = NotifiedWhenFirst(pass[p], r)

-----------------------------------------------------------------------------
(* C23: when the TriggeredAlert of one met rule cannot be persisted, the   *)
(* TriggeredAlerts of the other met rules of the pass are persisted all    *)
(* the same and the other notified rules are still handed to               *)
(* sendNotifications: once the createMany step is over, every met rule     *)
(* whose own row the database did not refuse has its one row inserted,     *)
(* and once evaluateRules has returned every notified rule was dispatched. *)
C23_WriteFailureIsolated ==
    \A p \in PassIds :
        \A q \in Evaluated(pass[p]) :
            /\ ( /\ Recorded(pass[p])
                 /\ pass[p].log[q].outcome \in {"MET_SUPPRESSED", "MET_NOTIFIED"}
                 /\ q \notin pass[p].blamed )
               => CountRule(pass[p].inserted, q) = 1
            /\ ( /\ Returned(pass[p])
                 /\ pass[p].log[q].outcome = "MET_NOTIFIED" )
               => CountRule(DispatchedEvents(pass[p]), q) = 1

-----------------------------------------------------------------------------
(* C24: a delivery that fails for one event of the batch is counted as a   *)
(* failure and does not stop the deliveries of the other events, and no    *)
(* TriggeredAlert the pass has inserted is removed or written again: once  *)
(* sendNotifications was called, every event of the batch had its own      *)
(* sendEmailNotification, in order, failureCount is the number of events   *)
(* that were not sent, and every row the pass inserted is in the table     *)
(* exactly once.                                                           *)
Undelivered(ps) == {i \in DOMAIN ps.emails : ps.emails[i].result # SENT}

C24_DispatcherFailuresIsolated ==
    \A p \in PassIds :
        pass[p].sendNotificationsCalls # <<>> =>
            /\ Len(pass[p].emails) = Len(DispatchedEvents(pass[p]))
            /\ \A i \in DOMAIN pass[p].emails :
                  pass[p].emails[i].ruleId = DispatchedEvents(pass[p])[i].ruleId
            /\ pass[p].failureCount = Cardinality(Undelivered(pass[p]))
            /\ pass[p].successCount + pass[p].failureCount = Len(DispatchedEvents(pass[p]))
            /\ \A i \in DOMAIN pass[p].inserted :
                  Cardinality({j \in DOMAIN triggeredAlerts :
                                  triggeredAlerts[j] = pass[p].inserted[i]}) = 1

-----------------------------------------------------------------------------
(* C25: a rule that is disabled when a pass loads its rules gets no        *)
(* TriggeredAlert and no notification from that pass, so that a rule       *)
(* switched off by PATCH is not fired by any pass that starts before it is *)
(* switched on again: the rule query of a pass returns no rule that is     *)
(* disabled at that moment, and every write request, inserted row and      *)
(* dispatched event of a pass is for a rule the query returned.            *)
RulesOf(rows) == {rows[i].ruleId : i \in DOMAIN rows}

C25_DisabledRulesNotFiredStep ==
    \A p \in PassIds :
        /\ ( /\ pass[p].pc = "loadRules"
             /\ pass'[p].pc \in {"loadPrices", "prune"} )
           => \A r \in DOMAIN rules :
                 ~rules[r].isEnabled => r \notin DOMAIN pass'[p].activeRules
        /\ RulesOf(WriteRequests(pass'[p])) \subseteq DOMAIN pass'[p].activeRules
        /\ RulesOf(pass'[p].inserted) \subseteq DOMAIN pass'[p].activeRules
        /\ RulesOf(DispatchedEvents(pass'[p])) \subseteq DOMAIN pass'[p].activeRules

C25_DisabledRulesNotFired == [][C25_DisabledRulesNotFiredStep]_vars

(* A pass has fired r2 and left out r1, which u1 had switched off and      *)
(* which has the same condition on the same asset.                         *)
C25_Witness ==
    /\ DOMAIN rules = {"r1", "r2"}
    /\ ~rules["r1"].isEnabled
    /\ rules["r1"].type = rules["r2"].type
    /\ rules["r1"].value = rules["r2"].value
    /\ rules["r1"].trackedAssetId = rules["r2"].trackedAssetId
    /\ Returned(pass[1])
    /\ DOMAIN pass[1].activeRules = {"r2"}
    /\ pass[1].log["r2"].outcome = "MET_NOTIFIED"
    /\ CountRule(pass[1].inserted, "r2") = 1
    /\ CountRule(DispatchedEvents(pass[1]), "r2") = 1
    /\ CountRule(triggeredAlerts, "r1") = 0

-----------------------------------------------------------------------------
(* C26: whatever POST and PATCH requests are made, every stored percentage *)
(* rule has a window of 1 to 72 whole hours, and a POST of a signed-in     *)
(* user for a percentage rule whose window is absent or not a whole number *)
(* from 1 to 72 is answered with 400 and stores nothing.                   *)
WholeHoursInRange ==
    {h * HalvesPerHour : h \in MinTimeWindowHours .. MaxTimeWindowHours}

BadWindow(body) ==
    \/ body.timeWindowHours = <<>>
    \/ body.timeWindowHours[1] \notin WholeHoursInRange

C26_PercentRulesCarryWindowStep ==
    /\ \A r \in DOMAIN rules' :
          IsPercentType(rules'[r].type) =>
              rules'[r].timeWindowHours \in MinTimeWindowHours .. MaxTimeWindowHours
    /\ \A session \in Sessions \ {<<>>}, body \in PostBodies, dbOk \in BOOLEAN :
          ( /\ Post(session, body, dbOk)
            /\ IsPercentType(body.type)
            /\ BadWindow(body) )
          => /\ api'.status = StatusBadRequest
             /\ rules' = rules

C26_PercentRulesCarryWindow == [][C26_PercentRulesCarryWindowStep]_vars

(* A percentage rule is stored and was switched off by PATCH, and the last *)
(* request, a POST, was answered with 400.                                 *)
C26_Witness ==
    /\ api.status = StatusBadRequest
    /\ \E r \in DOMAIN rules :
          /\ IsPercentType(rules[r].type)
          /\ ~rules[r].isEnabled
          /\ rules[r].timeWindowHours = MaxTimeWindowHours

-----------------------------------------------------------------------------
(* C27: whatever rules are created, the value of every stored percentage   *)
(* rule is a magnitude: no stored PERCENT_CHANGE_INCREASE or               *)
(* PERCENT_CHANGE_DECREASE rule has a value below 0.                       *)
C27_PercentValueNonNegative ==
    \A r \in DOMAIN rules :
        IsPercentType(rules[r].type) => rules[r].value >= 0

-----------------------------------------------------------------------------
(* C28: notified implies recorded, also when a write fails: every event a  *)
(* pass has handed to sendNotifications is for a rule of which the pass    *)
(* has inserted a TriggeredAlert, and that row is in the table, where the  *)
(* cooldown check of the next pass finds it.                               *)
C28_NotifiedImpliesRecorded ==
    \A p \in PassIds :
        \A r \in RulesOf(DispatchedEvents(pass[p])) :
            /\ CountRule(pass[p].inserted, r) >= 1
            /\ \E i \in DOMAIN triggeredAlerts :
                  /\ triggeredAlerts[i].ruleId = r
                  /\ triggeredAlerts[i].triggeredAt >= pass[p].log[r].evalAt

-----------------------------------------------------------------------------
(* C29: overlapping passes deliver a rule to sendNotifications at most     *)
(* once per cooldown window: when two invocations have both recorded and   *)
(* dispatched the same rule, they looked at it at least 60 minutes apart.  *)
RecordedAndDispatched(ps, r) ==
    /\ CountRule(ps.inserted, r) >= 1
    /\ CountRule(DispatchedEvents(ps), r) >= 1

C29_OverlapDeliversOnce ==
    \A p \in PassIds, q \in PassIds :
        p # q =>
            \A r \in Evaluated(pass[p]) \cap Evaluated(pass[q]) :
                ( /\ RecordedAndDispatched(pass[p], r)
                  /\ RecordedAndDispatched(pass[q], r)
                  /\ pass[p].log[r].evalAt <= pass[q].log[r].evalAt )
                => pass[q].log[r].evalAt - pass[p].log[r].evalAt
                       >= RULE_COOLDOWN_MINUTES

-----------------------------------------------------------------------------
(* C30: a firing suppressed by quiet time starts the cooldown like a       *)
(* notified one and is not delivered later: when an invocation has         *)
(* recorded a suppressed firing of a rule, an invocation that loads that   *)
(* alert and looks at the rule less than 60 minutes after it skips the     *)
(* rule for cooldown, writes nothing for it and does not dispatch it.      *)
LoadedAlertOf(ps, qs, r) ==
    /\ r \in DOMAIN qs.activeRules
    /\ qs.activeRules[r].triggeredAlerts # <<>>
    /\ \E i \in DOMAIN ps.inserted :
          /\ ps.inserted[i].ruleId = r
          /\ ps.inserted[i].triggeredAt = qs.activeRules[r].triggeredAlerts[1].triggeredAt

C30_SuppressedStartsCooldown ==
    \A p \in PassIds, q \in PassIds :
        p # q =>
            \A r \in Evaluated(pass[p]) \cap Evaluated(pass[q]) :
                ( /\ pass[p].log[r].outcome = "MET_SUPPRESSED"
                  /\ LoadedAlertOf(pass[p], pass[q], r)
                  /\ HasLatestPrice(pass[q], r)
                  /\ pass[q].log[r].evalAt
                        - pass[q].activeRules[r].triggeredAlerts[1].triggeredAt
                        < RULE_COOLDOWN_MINUTES )
                => /\ pass[q].log[r].outcome = "SKIPPED_COOLDOWN"
                   /\ CountRule(WriteRequests(pass[q]), r) = 0
                   /\ CountRule(pass[q].triggeredRules, r) = 0
                   /\ CountRule(DispatchedEvents(pass[q]), r) = 0

(* The later invocation has returned, it looked at the rule after quiet    *)
(* time had ended, with the price still above the target.                  *)
C30_Witness ==
    \E p \in PassIds, q \in PassIds :
        /\ p # q
        /\ "r1" \in Evaluated(pass[p]) \cap Evaluated(pass[q])
        /\ pass[p].log["r1"].outcome = "MET_SUPPRESSED"
        /\ LoadedAlertOf(pass[p], pass[q], "r1")
        /\ Returned(pass[q])
        /\ pass[q].log["r1"].outcome = "SKIPPED_COOLDOWN"
        /\ pass[q].log["r1"].evalAt > pass[p].log["r1"].evalAt
        /\ ~isQuietTime(pass[q].activeRules["r1"].user, pass[q].log["r1"].evalAt)
        /\ LatestPriceOf(pass[q], "r1").price > pass[q].activeRules["r1"].value

====
